---- MODULE Spec2Model ----
(***************************************************************************)
(* A model of the resume scoring engine: the keyword matcher and score     *)
(* composer (src/src/scoring.py), the gap analyzer and suggestion          *)
(* generator (src/src/improve_bot.py), the lazily loaded embedding model   *)
(* (src/src/embeddings.py) and the ranking step of the dashboard           *)
(* (src/app.py).                                                           *)
(*                                                                         *)
(* A Python str is a sequence of one-character strings.  A string literal  *)
(* of the source that is only ever copied into an output (a canned tip, a  *)
(* message template) is kept as one element holding the literal.           *)
(***************************************************************************)
EXTENDS Integers, Sequences, FiniteSets, TLC

VARIABLES
  resume_text,   \* argument resume_text / text
  job_text,      \* argument job_text
  must_have,     \* argument must_have / keywords
  nice_to_have,  \* argument nice_to_have
  weights,       \* argument weights (a mapping; absent keys are absent)
  gaps,          \* argument gaps of suggestions_from_gaps
  target_role,   \* argument target_role of suggest_improvements
  called,        \* name of the function whose call has returned, or "none"
  ret,           \* what that call returned (or the exception it raised)
  rows,          \* app.py: the scored rows, in upload order
  df,            \* app.py: the ranked frame (empty before ranking)
  _model,        \* embeddings.py: the module-level _model
  loads,         \* number of SentenceTransformer instances constructed
  pc,            \* per thread: position inside get_model
  got,           \* per thread: the instance its last get_model call returned
  calls,         \* per thread: number of get_model calls completed
  fresh          \* per thread: the instance it constructed and has not yet stored

vars == <<resume_text, job_text, must_have, nice_to_have, weights, gaps,
          target_role, called, ret, rows, df, _model, loads, pc, got, calls,
          fresh>>

None == "None"

\* an optional model instance: the empty set is None, {n} is the n-th
\* instance constructed
NoModel == {}

(***************************************************************************)
(* Bounds of the model.                                                    *)
(***************************************************************************)
MaxTextLen == 3   \* characters of a resume text (keyword matcher)
MaxKws     == 2   \* entries of the two keyword lists together

(***************************************************************************)
(* Characters.                                                             *)
(***************************************************************************)
LowerLetters == <<"a","b","c","d","e","f","g","h","i","j","k","l","m",
                  "n","o","p","q","r","s","t","u","v","w","x","y","z">>
UpperLetters == <<"A","B","C","D","E","F","G","H","I","J","K","L","M",
                  "N","O","P","Q","R","S","T","U","V","W","X","Y","Z">>
Digits == {"0","1","2","3","4","5","6","7","8","9"}

Range(s) == {s[i] : i \in DOMAIN s}

UpperSet == Range(UpperLetters)
LowerSet == Range(LowerLetters)
ToLower == [c \in UpperSet |-> LowerLetters[CHOOSE i \in 1..26 : UpperLetters[i] = c]]
ToUpper == [c \in LowerSet |-> UpperLetters[CHOOSE i \in 1..26 : LowerLetters[i] = c]]

IsCased(c) == c \in UpperSet \/ c \in LowerSet

\* str.lower / str.upper on one character
LowerChar(c) == IF c \in UpperSet THEN ToLower[c] ELSE c
UpperChar(c) == IF c \in LowerSet THEN ToUpper[c] ELSE c

\* str.lower()
Lower(s) == [i \in 1..Len(s) |-> LowerChar(s[i])]

\* str.title(): a cased character is upper-cased when the character before
\* it is not cased, and lower-cased otherwise
Title(s) ==
  [i \in 1..Len(s) |->
     IF i > 1 /\ IsCased(s[i-1]) THEN LowerChar(s[i]) ELSE UpperChar(s[i])]

\* the regular expression class \w
WordChars == UpperSet \cup LowerSet \cup Digits \cup {"_"}
IsWordChar(c) == c \in WordChars

\* Python's  sub in s  on strings
Contains(s, sub) ==
  \E p \in 0..(Len(s) - Len(sub)) :
     \A i \in 1..Len(sub) : s[p + i] = sub[i]

(***************************************************************************)
(* The fragment of Python's re the keyword matcher uses.                   *)
(***************************************************************************)
\* re.escape: a backslash before every special character; word characters
\* are never escaped
RECURSIVE ReEscape(_)
ReEscape(s) ==
  IF s = <<>> THEN <<>>
  ELSE (IF IsWordChar(Head(s)) THEN <<Head(s)>> ELSE <<"\\", Head(s)>>)
       \o ReEscape(Tail(s))

WordBoundary == [tok |-> "b"]
Lit(c) == [tok |-> "lit", ch |-> c]
OneOrMore == [tok |-> "+"]

\* re.compile: the pattern text parsed into tokens
RECURSIVE ReCompile(_)
ReCompile(p) ==
  IF p = <<>> THEN <<>>
  ELSE IF Head(p) = "\\" /\ Len(p) >= 2
       THEN <<(IF p[2] = "b" THEN WordBoundary ELSE Lit(p[2]))>>
            \o ReCompile(Tail(Tail(p)))
       ELSE <<(IF Head(p) = "+" THEN OneOrMore ELSE Lit(Head(p)))>>
            \o ReCompile(Tail(p))

\* \b at position p (between txt[p-1] and txt[p]); outside the text counts
\* as a non-word character
WordAt(txt, p) == p >= 1 /\ p <= Len(txt) /\ IsWordChar(txt[p])
AtBoundary(txt, p) == WordAt(txt, p - 1) # WordAt(txt, p)

\* length of the run of character c in txt starting at position p
RECURSIVE RunLen(_, _, _)
RunLen(txt, p, c) ==
  IF p <= Len(txt) /\ txt[p] = c THEN 1 + RunLen(txt, p + 1, c) ELSE 0

\* the positions at which a match of toks[i..] that starts at p can end
RECURSIVE MatchEnds(_, _, _, _)
MatchEnds(toks, i, txt, p) ==
  IF i > Len(toks) THEN {p}
  ELSE IF toks[i].tok = "b"
       THEN (IF AtBoundary(txt, p) THEN MatchEnds(toks, i + 1, txt, p) ELSE {})
  ELSE IF toks[i].tok = "+" THEN {}
  ELSE IF i < Len(toks) /\ toks[i + 1].tok = "+"
       THEN UNION {MatchEnds(toks, i + 2, txt, p + n) :
                     n \in 1..RunLen(txt, p, toks[i].ch)}
  ELSE IF p <= Len(txt) /\ txt[p] = toks[i].ch
       THEN MatchEnds(toks, i + 1, txt, p + 1)
       ELSE {}

\* re.search(pattern, txt) is not None
ReSearch(toks, txt) ==
  \E p \in 1..(Len(txt) + 1) : MatchEnds(toks, 1, txt, p) # {}

SetMax(S) == CHOOSE x \in S : \A y \in S : y <= x

\* len(pattern.findall(txt)): non-overlapping matches, scanned left to right
RECURSIVE FindallCount(_, _, _)
FindallCount(toks, txt, p) ==
  IF p > Len(txt) + 1 THEN 0
  ELSE LET ends == MatchEnds(toks, 1, txt, p) IN
       IF ends = {} THEN FindallCount(toks, txt, p + 1)
       ELSE LET e == SetMax(ends) IN
            1 + FindallCount(toks, txt, IF e = p THEN p + 1 ELSE e)

\* r'\b' + re.escape(kw.lower()) + r'\b'
KeywordPattern(kw) ==
  ReCompile(<<"\\", "b">> \o ReEscape(Lower(kw)) \o <<"\\", "b">>)

(***************************************************************************)
(* scoring.py: keyword matcher.  A float is modelled as an exact ratio     *)
(* of two integers.                                                        *)
(***************************************************************************)
Max(a, b) == IF a >= b THEN a ELSE b

Ratio(n, d) == [num |-> n, den |-> d]

RECURSIVE keyword_counts(_, _)
keyword_counts(text, keywords) ==
  IF keywords = <<>> THEN 0
  ELSE FindallCount(KeywordPattern(Head(keywords)), Lower(text), 1)
       + keyword_counts(text, Tail(keywords))

RECURSIVE CoverageHits(_, _)
CoverageHits(txt, keywords) ==
  IF keywords = <<>> THEN 0
  ELSE (IF ReSearch(KeywordPattern(Head(keywords)), txt) THEN 1 ELSE 0)
       + CoverageHits(txt, Tail(keywords))

\* mutant: the division without the max(1, ...) floor
keyword_coverage_nofloor(text, keywords) ==
  Ratio(CoverageHits(Lower(text), keywords), Len(keywords))

keyword_coverage(text, keywords) ==
  Ratio(CoverageHits(Lower(text), keywords), Max(1, Len(keywords)))

(***************************************************************************)
(* improve_bot.py: gap analyzer.                                           *)
(***************************************************************************)
Missing(lower, keywords) ==
  SelectSeq(keywords, LAMBDA k : ~Contains(lower, Lower(k)))

gap_analysis(text, must, nice) ==
  [missing_must |-> Missing(Lower(text), must),
   missing_nice |-> Missing(Lower(text), nice)]

(***************************************************************************)
(* Inputs of the keyword matcher and the gap analyzer.                     *)
(***************************************************************************)
\* a lower-case word character, an upper-case one, and a non-word character
Alphabet == {"a", "N", "+"}

SeqsUpTo(S, n) == UNION {[1..k -> S] : k \in 0..n}

Texts == SeqsUpTo(Alphabet, MaxTextLen)

\* a plain word, an upper-case word, and keywords that end or start with a
\* non-word character
Keywords == {<<"a">>, <<"N">>, <<"a", "+">>, <<"+", "N">>}

KeywordLists(n) == SeqsUpTo(Keywords, n)

(***************************************************************************)
(* The parts of the state a specification does not use stay as they are    *)
(* at import time.                                                         *)
(***************************************************************************)
NoCall == called = "none" /\ ret = None
NoScoreArgs == job_text = <<>> /\ weights = <<>>
NoKeywordArgs == resume_text = <<>> /\ must_have = <<>> /\ nice_to_have = <<>>
NoTipArgs == gaps = <<>> /\ target_role = <<>>
NoRanking == rows = <<>> /\ df = <<>>
NoThreads ==
  /\ _model = NoModel /\ loads = 0
  /\ pc = <<>> /\ got = <<>> /\ calls = <<>> /\ fresh = <<>>

argVars == <<resume_text, job_text, must_have, nice_to_have, weights, gaps,
             target_role>>
rankVars == <<rows, df>>
embVars == <<_model, loads, pc, got, calls, fresh>>

\* a call of a pure function: its arguments are read, its result is kept
Returns(name, value) ==
  /\ called' = name
  /\ ret' = value
  /\ UNCHANGED <<argVars, rankVars, embVars>>

(***************************************************************************)
(* Spec: calls of the keyword matcher and the gap analyzer on one resume   *)
(* text and a pair of keyword lists.                                       *)
(***************************************************************************)
Init ==
  /\ resume_text \in Texts
  /\ must_have \in KeywordLists(MaxKws)
  /\ nice_to_have \in KeywordLists(MaxKws - Len(must_have))
  /\ NoScoreArgs /\ NoTipArgs /\ NoCall /\ NoRanking /\ NoThreads

CallKeywordCounts ==
  Returns("keyword_counts", keyword_counts(resume_text, must_have))

CallKeywordCoverage ==
  Returns("keyword_coverage", keyword_coverage(resume_text, must_have))

CallGapAnalysis ==
  Returns("gap_analysis", gap_analysis(resume_text, must_have, nice_to_have))

Next == CallKeywordCounts \/ CallKeywordCoverage \/ CallGapAnalysis

Spec == Init /\ [][Next]_vars

(***************************************************************************)
(* Claims about the keyword matcher and the gap analyzer (under Spec).     *)
(***************************************************************************)
InSeq(x, s) == \E i \in DOMAIN s : s[i] = x

\* C1: after gap_analysis, a keyword of the must-have (nice-to-have) list is
\* in missing_must (missing_nice) if and only if keyword_coverage of the
\* resume text and that single keyword is 0.
C1_GapsAgreeWithCoverage ==
  called = "gap_analysis" =>
    /\ \A i \in DOMAIN must_have :
         InSeq(must_have[i], ret.missing_must)
           <=> keyword_coverage(resume_text, <<must_have[i]>>).num = 0
    /\ \A i \in DOMAIN nice_to_have :
         InSeq(nice_to_have[i], ret.missing_nice)
           <=> keyword_coverage(resume_text, <<nice_to_have[i]>>).num = 0

\* the entries of a keyword list the matcher's pattern finds in the text
FoundEntries(text, keywords) ==
  {i \in DOMAIN keywords :
     ReSearch(KeywordPattern(keywords[i]), Lower(text))}

\* C2: keyword_coverage returns (number of entries of the list found at
\* least once, duplicates counted separately) / max(1, len(list)): the
\* denominator is never 0, the ratio is in [0,1], and it is 0 for the empty
\* list.
C2_CoverageIsHitsOverFloor ==
  called = "keyword_coverage" =>
    /\ ret.num = Cardinality(FoundEntries(resume_text, must_have))
    /\ ret.den = (IF Len(must_have) = 0 THEN 1 ELSE Len(must_have))
    /\ ret.den > 0
    /\ 0 <= ret.num /\ ret.num <= ret.den
    /\ (must_have = <<>> => ret.num = 0)

\* C2 witness: a list holding the same keyword twice, found in the text, is
\* counted twice over a denominator of two.
C2_Witness ==
  /\ called = "keyword_coverage"
  /\ Len(must_have) = 2 /\ must_have[1] = must_have[2]
  /\ ret = Ratio(2, 2)

\* the text holds a case-insensitive occurrence of the whole keyword whose
\* first and last characters are not next to another word character
WholeWordOccurs(text, kw) ==
  \E p \in 0..(Len(text) - Len(kw)) :
     /\ \A i \in 1..Len(kw) : LowerChar(text[p + i]) = LowerChar(kw[i])
     /\ ~WordAt(text, p)
     /\ ~WordAt(text, p + Len(kw) + 1)

\* C3: keyword_coverage and keyword_counts count a keyword as found exactly
\* when the text holds a literal, case-insensitive occurrence of the whole
\* keyword not adjacent to another word character, also for keywords that
\* start or end with a non-word character.
C3_FoundIffWholeWordOccurs ==
  /\ called = "keyword_coverage" =>
       ret.num = Cardinality({i \in DOMAIN must_have :
                               WholeWordOccurs(resume_text, must_have[i])})
  /\ called = "keyword_counts" =>
       (ret > 0 <=> \E i \in DOMAIN must_have :
                       WholeWordOccurs(resume_text, must_have[i]))

(***************************************************************************)
(* scoring.py: similarity scorers and score composer.  Arithmetic on       *)
(* floats is exact arithmetic on ratios, kept in lowest terms.             *)
(***************************************************************************)
Abs(n) == IF n < 0 THEN -n ELSE n

RECURSIVE GCD(_, _)
GCD(a, b) == IF b = 0 THEN a ELSE GCD(b, a % b)

Norm(n, d) == LET g == GCD(Abs(n), d) IN Ratio(n \div g, d \div g)
RMul(a, b) == Norm(a.num * b.num, a.den * b.den)
RAdd(a, b) == Norm(a.num * b.den + b.num * a.den, a.den * b.den)

Raised(exc) == [raised |-> exc]

\* the entries of sklearn's English stop-word list of two or more
\* characters that can be written with the letters of Alphabet
StopWords == {<<"a", "n">>}

\* TfidfVectorizer's analyzer: the text lower-cased, its tokens the maximal
\* runs of two or more word characters, stop words removed
Tokens(text) ==
  LET low == Lower(text)
      runs == {pq \in (1..Len(low)) \X (1..Len(low)) :
                 /\ pq[1] < pq[2]
                 /\ \A i \in pq[1]..pq[2] : WordAt(low, i)
                 /\ ~WordAt(low, pq[1] - 1)
                 /\ ~WordAt(low, pq[2] + 1)}
  IN {SubSeq(low, pq[1], pq[2]) : pq \in runs} \ StopWords

\* similarities standing for the cosine of two tf-idf vectors that share a
\* term: strictly between 0 and 1, or 1
SharedTermSims == {Ratio(1, 2), Ratio(1, 1)}

\* what tfidf_overlap can do: fit_transform raises ValueError on an empty
\* vocabulary; a document without terms has a zero vector, so denom = 0 and
\* 0.0 is returned; without a shared term the dot product is 0
tfidf_overlap(resume, job) ==
  LET a == Tokens(job)
      b == Tokens(resume)
  IN IF a \cup b = {} THEN {Raised("ValueError")}
     ELSE IF a = {} \/ b = {} THEN {Ratio(0, 1)}
     ELSE IF a \cap b = {} THEN {Ratio(0, 1)}
     ELSE SharedTermSims

\* what embedding_match can return: the dot product of two unit vectors
\* computed by the sentence-embedding model
embedding_match == {Ratio(-1, 10), Ratio(7, 10)}

keyword_score(text, must, nice) ==
  [must_cov |-> keyword_coverage(text, must),
   nice_cov |-> keyword_coverage(text, nice)]

\* weights.get(key, default)
DictGet(d, key, default) == IF key \in DOMAIN d THEN d[key] ELSE default

\* mutant: the defaults of embeddings and keyword_must exchanged
overall_score_swapped_defaults(text, job, w, must, nice, emb, tfidf) ==
  IF tfidf = Raised("ValueError") THEN tfidf
  ELSE
    LET ks == keyword_score(text, must, nice)
        semantic == RAdd(RMul(Ratio(1, 2), emb), RMul(Ratio(1, 2), tfidf))
        total ==
          RAdd(RAdd(RMul(DictGet(w, "embeddings", Ratio(45, 100)), semantic),
                    RMul(DictGet(w, "keyword_must", Ratio(4, 10)), ks.must_cov)),
               RMul(DictGet(w, "keyword_nice", Ratio(15, 100)), ks.nice_cov))
    IN [must_coverage |-> ks.must_cov,
        nice_coverage |-> ks.nice_cov,
        embedding_sim |-> emb,
        tfidf_sim |-> tfidf,
        semantic_sim |-> semantic,
        total_score |-> total]

\* overall_score, given the values emb and tfidf its two scorers produced
overall_score(text, job, w, must, nice, emb, tfidf) ==
  IF tfidf = Raised("ValueError") THEN tfidf
  ELSE
    LET ks == keyword_score(text, must, nice)
        semantic == RAdd(RMul(Ratio(1, 2), emb), RMul(Ratio(1, 2), tfidf))
        total ==
          RAdd(RAdd(RMul(DictGet(w, "embeddings", Ratio(4, 10)), semantic),
                    RMul(DictGet(w, "keyword_must", Ratio(45, 100)), ks.must_cov)),
               RMul(DictGet(w, "keyword_nice", Ratio(15, 100)), ks.nice_cov))
    IN [must_coverage |-> ks.must_cov,
        nice_coverage |-> ks.nice_cov,
        embedding_sim |-> emb,
        tfidf_sim |-> tfidf,
        semantic_sim |-> semantic,
        total_score |-> total]

(***************************************************************************)
(* SpecScore: calls of tfidf_overlap and overall_score.                    *)
(***************************************************************************)
\* resume texts: empty, punctuation only, a stop word only, a one-letter
\* word and a term, one term, two terms
ScoreTexts ==
  {<<>>, <<"+">>, <<"A", "n">>, <<"a", "+", "N", "a">>, <<"N", "a">>,
   <<"a", "a", "+", "N", "A">>}

\* job descriptions: empty, a stop word only, one term, two terms
JobTexts ==
  {<<>>, <<"a", "N">>, <<"N", "a">>, <<"a", "a", "+", "N", "a">>}

\* the caller's weights: each key present or absent; not normalized
WeightSets ==
  {<<>>,
   [k \in {"keyword_must"} |-> Ratio(3, 10)],
   [k \in {"embeddings", "keyword_nice"} |->
      IF k = "embeddings" THEN Ratio(1, 2) ELSE Ratio(1, 5)],
   [k \in {"embeddings", "keyword_must", "keyword_nice"} |->
      IF k = "embeddings" THEN Ratio(1, 1)
      ELSE IF k = "keyword_must" THEN Ratio(2, 1) ELSE Ratio(0, 1)]}

ScoreKeywords == {<<"a">>, <<"N", "a">>}

InitScore ==
  /\ resume_text \in ScoreTexts
  /\ job_text \in JobTexts
  /\ weights \in WeightSets
  /\ must_have \in SeqsUpTo(ScoreKeywords, MaxKws)
  /\ nice_to_have \in SeqsUpTo(ScoreKeywords, MaxKws - Len(must_have))
  /\ NoTipArgs /\ NoCall /\ NoRanking /\ NoThreads

CallTfidfOverlap ==
  \E t \in tfidf_overlap(resume_text, job_text) :
     Returns("tfidf_overlap", t)

CallOverallScore ==
  \E emb \in embedding_match :
  \E tfidf \in tfidf_overlap(resume_text, job_text) :
     Returns("overall_score",
             overall_score(resume_text, job_text, weights, must_have,
                           nice_to_have, emb, tfidf))

NextScore == CallTfidfOverlap \/ CallOverallScore

SpecScore == InitScore /\ [][NextScore]_vars

(***************************************************************************)
(* Claims about the score composer (under SpecScore).                      *)
(***************************************************************************)
IsScoreRecord(r) ==
  DOMAIN r = {"must_coverage", "nice_coverage", "embedding_sim",
              "tfidf_sim", "semantic_sim", "total_score"}

\* the weight the claim names for a key: the caller's entry as given, or
\* the documented default n/100 when the key is absent
WeightOrDefault(key, n) ==
  IF key \in DOMAIN weights THEN weights[key] ELSE Ratio(n, 100)

\* a = b as numbers
REq(a, b) == a.num * b.den = b.num * a.den

\* C4: the record overall_score returns has total_score = w_emb *
\* semantic_sim + w_must * must_coverage + w_nice * nice_coverage and
\* semantic_sim = 0.5 * embedding_sim + 0.5 * tfidf_sim, over the values
\* the record reports; the coverages are those of the resume text; a weight
\* is the caller's, not normalized, or 0.40 / 0.45 / 0.15 when its key is
\* absent.
C4_TotalIsWeightedSum ==
  (called = "overall_score" /\ IsScoreRecord(ret)) =>
    /\ ret.must_coverage = keyword_coverage(resume_text, must_have)
    /\ ret.nice_coverage = keyword_coverage(resume_text, nice_to_have)
    /\ ret.embedding_sim \in embedding_match
    /\ ret.tfidf_sim \in tfidf_overlap(resume_text, job_text)
    /\ REq(RAdd(ret.semantic_sim, ret.semantic_sim),
           RAdd(ret.embedding_sim, ret.tfidf_sim))
    /\ REq(ret.total_score,
           RAdd(RMul(WeightOrDefault("embeddings", 40), ret.semantic_sim),
                RAdd(RMul(WeightOrDefault("keyword_must", 45), ret.must_coverage),
                     RMul(WeightOrDefault("keyword_nice", 15), ret.nice_coverage))))

\* C4 witness: a call with only keyword_must given, a keyword found and a
\* positive similarity returns a record.
C4_Witness ==
  /\ called = "overall_score" /\ IsScoreRecord(ret)
  /\ DOMAIN weights = {"keyword_must"}
  /\ ret.must_coverage.num > 0
  /\ ret.tfidf_sim.num > 0 /\ ret.embedding_sim.num > 0

\* the text is empty or holds stop words (or no term) only
Degenerate(text) == Tokens(text) = {}

\* C9: for an empty or stop-word-only resume_text and/or job_text
\* tfidf_overlap returns 0.0, and overall_score always returns a complete
\* score record instead of raising.
C9_DegenerateInputsAbsorbed ==
  /\ (called = "tfidf_overlap"
        /\ (Degenerate(resume_text) \/ Degenerate(job_text)))
       => ret = Ratio(0, 1)
  /\ called = "overall_score" => IsScoreRecord(ret)

(***************************************************************************)
(* improve_bot.py: suggestion generator.  An output line is the sequence   *)
(* of its characters, a literal of the source being one element.  The      *)
(* en dashes of two tips are written "-".                                  *)
(***************************************************************************)
\* a dict literal: the sequence of its <<key, value>> pairs as a mapping
DictOf(entries) ==
  [k \in {e[1] : e \in Range(entries)} |->
     (CHOOSE e \in Range(entries) : e[1] = k)[2]]

TipEntries ==
  <<<<<<"p", "y", "t", "h", "o", "n">>,
      "Show Python depth: projects, repos, or Kaggle notebooks. Mention libraries (pandas, numpy, scikit-learn).">>,
    <<<<"s", "q", "l">>,
      "Quantify SQL work: window funcs, CTEs, query optimization, and real datasets you queried.">>,
    <<<<"m", "a", "c", "h", "i", "n", "e", " ", "l", "e", "a", "r", "n", "i", "n", "g">>,
      "List 2-3 models you've trained end-to-end. Include metrics (ROC-AUC, F1) and business impact.">>,
    <<<<"s", "t", "a", "t", "i", "s", "t", "i", "c", "s">>,
      "Add statistical chops: hypothesis testing, confidence intervals, A/B tests you ran.">>,
    <<<<"p", "a", "n", "d", "a", "s">>,
      "Highlight data wrangling: groupby, merges, time-series resampling.">>,
    <<<<"n", "u", "m", "p", "y">>,
      "Mention vectorization and performance improvements from NumPy usage.">>,
    <<<<"s", "c", "i", "k", "i", "t", "-", "l", "e", "a", "r", "n">>,
      "Name pipelines, cross-validation, and model selection techniques you used.">>,
    <<<<"d", "a", "t", "a", " ", "v", "i", "s", "u", "a", "l", "i", "z", "a", "t", "i", "o", "n">>,
      "Include 1-2 plots with links or images; mention Matplotlib/Plotly/Seaborn.">>,
    <<<<"f", "e", "a", "t", "u", "r", "e", " ", "e", "n", "g", "i", "n", "e", "e", "r", "i", "n", "g">>,
      "Describe domain features you created and why they helped.">>,
    <<<<"m", "o", "d", "e", "l", " ", "e", "v", "a", "l", "u", "a", "t", "i", "o", "n">>,
      "Report metrics clearly; compare baselines vs. final models.">>,
    <<<<"d", "e", "e", "p", " ", "l", "e", "a", "r", "n", "i", "n", "g">>,
      "If relevant, note PyTorch/TensorFlow projects with problem, data size, and results.">>,
    <<<<"n", "l", "p">>,
      "If NLP, state tasks (classification, NER, QA) and datasets. Link to demos.">>,
    <<<<"m", "l", "o", "p", "s">>,
      "Mention experiment tracking (MLflow), CI, model registry, and deployment.">>,
    <<<<"c", "l", "o", "u", "d">>,
      "Show pipelines on AWS/GCP/Azure; name services used.">>>>

TIPS == DictOf(TipEntries)

\* f"Add concrete evidence of {kw} (projects, metrics, or links)."
GenericTip(kw) ==
  <<"Add concrete evidence of ">> \o kw \o <<" (projects, metrics, or links).">>

\* f"- {kw.title()}: {tip}" with tip = TIPS.get(kw.lower(), <generic tip>)
TipLine(kw) ==
  LET tip == IF Lower(kw) \in DOMAIN TIPS THEN <<TIPS[Lower(kw)]>>
             ELSE GenericTip(kw)
  IN <<"- ">> \o Title(kw) \o <<": ">> \o tip

StrongCoverage ==
  <<"- Strong coverage already. Consider tightening bullets, quantifying impact, and linking to work.">>

\* the lines of one bucket, in list order
BucketLines(g, bucket) ==
  LET kws == DictGet(g, bucket, <<>>) IN
  [i \in 1..Len(kws) |-> TipLine(kws[i])]

\* mutant: the nice-to-have bucket first
suggestions_from_gaps_nice_first(g) ==
  LET out == BucketLines(g, "missing_nice") \o BucketLines(g, "missing_must")
  IN IF out = <<>> THEN <<StrongCoverage>> ELSE out

\* mutant: the fallback appended whether or not tips were found
suggestions_from_gaps_always_fallback(g) ==
  BucketLines(g, "missing_must") \o BucketLines(g, "missing_nice")
    \o <<StrongCoverage>>

suggestions_from_gaps(g) ==
  LET out == BucketLines(g, "missing_must") \o BucketLines(g, "missing_nice")
  IN IF out = <<>> THEN <<StrongCoverage>> ELSE out

RoleEntries ==
  <<<<<<"d", "a", "t", "a", " ", "s", "c", "i", "e", "n", "t", "i", "s", "t">>,
      <<<<"p", "y", "t", "h", "o", "n">>,
        <<"m", "a", "c", "h", "i", "n", "e", " ", "l", "e", "a", "r", "n", "i", "n", "g">>,
        <<"d", "e", "e", "p", " ", "l", "e", "a", "r", "n", "i", "n", "g">>,
        <<"s", "q", "l">>,
        <<"s", "t", "a", "t", "i", "s", "t", "i", "c", "s">>>>>>,
    <<<<"m", "l", " ", "e", "n", "g", "i", "n", "e", "e", "r">>,
      <<<<"m", "l", "o", "p", "s">>,
        <<"d", "o", "c", "k", "e", "r">>,
        <<"k", "u", "b", "e", "r", "n", "e", "t", "e", "s">>,
        <<"m", "o", "d", "e", "l", " ", "d", "e", "p", "l", "o", "y", "m", "e", "n", "t">>,
        <<"p", "y", "t", "o", "r", "c", "h">>,
        <<"t", "e", "n", "s", "o", "r", "f", "l", "o", "w">>>>>>,
    <<<<"d", "a", "t", "a", " ", "a", "n", "a", "l", "y", "s", "t">>,
      <<<<"s", "q", "l">>,
        <<"e", "x", "c", "e", "l">>,
        <<"t", "a", "b", "l", "e", "a", "u">>,
        <<"p", "o", "w", "e", "r", " ", "b", "i">>,
        <<"d", "a", "t", "a", " ", "v", "i", "s", "u", "a", "l", "i", "z", "a", "t", "i", "o", "n">>>>>>>>

role_keywords == DictOf(RoleEntries)

\* f"Consider adding experience with **{kw}** to strengthen your
\* {target_role} resume."
ConsiderAdding(kw, role) ==
  <<"Consider adding experience with **">> \o kw
    \o <<"** to strengthen your ">> \o role \o <<" resume.">>

\* f"Your resume already looks good for a {target_role} role. " followed by
\* a thumbs-up emoji
LooksGood(role) ==
  <<"Your resume already looks good for a ">> \o role
    \o <<" role. (thumbs-up emoji)">>

\* variant: the keyword is looked for in the text as given
suggest_improvements_case_sensitive(text, role_arg) ==
  LET role == Lower(role_arg)
      expected == IF role \in DOMAIN role_keywords
                  THEN role_keywords[role] ELSE <<>>
      absent == SelectSeq(expected, LAMBDA kw : ~Contains(text, kw))
      suggestions == [i \in 1..Len(absent) |-> ConsiderAdding(absent[i], role_arg)]
  IN IF suggestions = <<>> THEN <<LooksGood(role_arg)>> ELSE suggestions

\* mutant: the fallback names the normalized role
suggest_improvements_normalized_name(text, role_arg) ==
  LET role == Lower(role_arg)
      expected == IF role \in DOMAIN role_keywords
                  THEN role_keywords[role] ELSE <<>>
      absent == SelectSeq(expected, LAMBDA kw : ~Contains(Lower(text), kw))
      suggestions == [i \in 1..Len(absent) |-> ConsiderAdding(absent[i], role_arg)]
  IN IF suggestions = <<>> THEN <<LooksGood(role)>> ELSE suggestions

suggest_improvements(text, role_arg) ==
  LET role == Lower(role_arg)
      expected == IF role \in DOMAIN role_keywords
                  THEN role_keywords[role] ELSE <<>>
      absent == SelectSeq(expected, LAMBDA kw : ~Contains(Lower(text), kw))
      suggestions == [i \in 1..Len(absent) |-> ConsiderAdding(absent[i], role_arg)]
  IN IF suggestions = <<>> THEN <<LooksGood(role_arg)>> ELSE suggestions

(***************************************************************************)
(* SpecTips: calls of suggestions_from_gaps on a gap record whose keys may *)
(* be absent.                                                              *)
(***************************************************************************)
MaxGaps == 2   \* missing keywords of a gap record, both lists together

\* keywords with a canned tip (as written or in another case), without one,
\* and of more than one word
GapKeywords ==
  {<<"s", "q", "l">>, <<"S", "Q", "L">>, <<"a", "w", "s">>,
   <<"d", "e", "e", "p", " ", "l", "e", "a", "r", "n", "i", "n", "g">>,
   <<"S", "c", "i", "k", "i", "t", "-", "L", "e", "a", "r", "n">>}

GapRecords ==
  {g \in UNION {[D -> SeqsUpTo(GapKeywords, MaxGaps)] :
                  D \in SUBSET {"missing_must", "missing_nice"}} :
     \A k \in DOMAIN g :
        \A j \in DOMAIN g : k # j => Len(g[k]) + Len(g[j]) <= MaxGaps}

InitTips ==
  /\ gaps \in GapRecords
  /\ target_role = <<>>
  /\ NoKeywordArgs /\ NoScoreArgs /\ NoCall /\ NoRanking /\ NoThreads

CallSuggestionsFromGaps ==
  Returns("suggestions_from_gaps", suggestions_from_gaps(gaps))

NextTips == CallSuggestionsFromGaps

SpecTips == InitTips /\ [][NextTips]_vars

(***************************************************************************)
(* SpecRole: calls of suggest_improvements.                                *)
(***************************************************************************)
MaxFragments == 2   \* fragments a resume text is put together from

RECURSIVE Concat(_)
Concat(ss) == IF ss = <<>> THEN <<>> ELSE Head(ss) \o Concat(Tail(ss))

Fragments ==
  {<<"s", "q", "l">>, <<"P", "y", "t", "h", "o", "n", " ">>,
   <<"T", "A", "B", "L", "E", "A", "U">>, <<"e", "x", "c", "e", "l", ",", " ">>, <<"x">>,
   <<"E", "x", "c", "e", "l", ",", " ", "T", "a", "b", "l", "e", "a", "u", ",", " ", "P", "o", "w", "e", "r", " ", "B", "I", ",", " ", "D", "a", "t", "a", " ", "V", "i", "s", "u", "a", "l", "i", "z", "a", "t", "i", "o", "n">>}

RoleTexts == {Concat(fs) : fs \in SeqsUpTo(Fragments, MaxFragments)}

\* role names outside the table (one with a trailing blank, the empty
\* name) and names in it, in several cases
TargetRoles ==
  {<<"U", "n", "k", "n", "o", "w", "n", " ", "R", "o", "l", "e">>,
   <<"d", "a", "t", "a", " ", "s", "c", "i", "e", "n", "t", "i", "s", "t", " ">>,
   <<>>,
   <<"D", "a", "t", "a", " ", "A", "n", "a", "l", "y", "s", "t">>,
   <<"d", "a", "t", "a", " ", "s", "c", "i", "e", "n", "t", "i", "s", "t">>,
   <<"M", "L", " ", "E", "N", "G", "I", "N", "E", "E", "R">>}

InitRole ==
  /\ resume_text \in RoleTexts
  /\ target_role \in TargetRoles
  /\ must_have = <<>> /\ nice_to_have = <<>> /\ gaps = <<>>
  /\ NoScoreArgs /\ NoCall /\ NoRanking /\ NoThreads

CallSuggestImprovements ==
  Returns("suggest_improvements",
          suggest_improvements(resume_text, target_role))

NextRole == CallSuggestImprovements

SpecRole == InitRole /\ [][NextRole]_vars

(***************************************************************************)
(* Claims about the suggestion generator.                                  *)
(***************************************************************************)
MissingMust == IF "missing_must" \in DOMAIN gaps THEN gaps.missing_must ELSE <<>>
MissingNice == IF "missing_nice" \in DOMAIN gaps THEN gaps.missing_nice ELSE <<>>

\* the missing keyword line i of the suggestions is about: the must-have
\* gaps in list order, then the nice-to-have gaps in list order
MissingAt(i) ==
  IF i <= Len(MissingMust) THEN MissingMust[i]
  ELSE MissingNice[i - Len(MissingMust)]

\* the tip text for a keyword: the advice-table entry of the lower-cased
\* keyword if there is one, and the generic tip otherwise
TipText(kw) ==
  IF \E e \in Range(TipEntries) : e[1] = Lower(kw)
  THEN <<(CHOOSE e \in Range(TipEntries) : e[1] = Lower(kw))[2]>>
  ELSE <<"Add concrete evidence of ">> \o kw
         \o <<" (projects, metrics, or links).">>

SomeMissing == Len(MissingMust) + Len(MissingNice) > 0

\* C5 as claimed: one line per missing keyword, must-have gaps before
\* nice-to-have gaps, each line "<Keyword>: <tip text>" (the keyword as
\* given or in title case).
C5_LinesAsClaimed ==
  (called = "suggestions_from_gaps" /\ SomeMissing) =>
    /\ Len(ret) = Len(MissingMust) + Len(MissingNice)
    /\ \A i \in DOMAIN ret :
         \/ ret[i] = MissingAt(i) \o <<": ">> \o TipText(MissingAt(i))
         \/ ret[i] = Title(MissingAt(i)) \o <<": ">> \o TipText(MissingAt(i))

\* C5 amended: one line per missing keyword, must-have gaps before
\* nice-to-have gaps in list order, each line "- <Keyword>: <tip text>"
\* with the keyword in title case and the tip text the advice-table entry
\* of the lower-cased keyword or else the generic tip naming the keyword as
\* given.
C5_BulletLines ==
  (called = "suggestions_from_gaps" /\ SomeMissing) =>
    /\ Len(ret) = Len(MissingMust) + Len(MissingNice)
    /\ \A i \in DOMAIN ret :
         ret[i] = <<"- ">> \o Title(MissingAt(i)) \o <<": ">>
                    \o TipText(MissingAt(i))

\* C5 witness: an upper-case keyword with a canned tip is missing from the
\* must-have list and a keyword without one from the nice-to-have list.
C5_Witness ==
  /\ called = "suggestions_from_gaps"
  /\ DOMAIN gaps = {"missing_must", "missing_nice"}
  /\ gaps.missing_must = <<<<"S", "Q", "L">>>>
  /\ gaps.missing_nice = <<<<"a", "w", "s">>>>
  /\ Len(ret) = 2

\* C6: suggestions_from_gaps never returns an empty list; with both lists
\* empty or absent it returns exactly the fallback encouragement string;
\* otherwise it returns len(missing_must) + len(missing_nice) lines, none
\* of them the fallback.
C6_FallbackOnlyWhenNoGaps ==
  called = "suggestions_from_gaps" =>
    /\ Len(ret) >= 1
    /\ ~SomeMissing => ret = <<StrongCoverage>>
    /\ SomeMissing =>
         /\ Len(ret) = Len(MissingMust) + Len(MissingNice)
         /\ \A i \in DOMAIN ret : ret[i] # StrongCoverage

\* C6 witness: a record without either key yields the single fallback.
C6_Witness ==
  /\ called = "suggestions_from_gaps"
  /\ DOMAIN gaps = {}
  /\ ret = <<StrongCoverage>>

\* the keys of the fixed role-keyword table
RoleNames ==
  {<<"d", "a", "t", "a", " ", "s", "c", "i", "e", "n", "t", "i", "s", "t">>,
   <<"m", "l", " ", "e", "n", "g", "i", "n", "e", "e", "r">>,
   <<"d", "a", "t", "a", " ", "a", "n", "a", "l", "y", "s", "t">>}

\* C7: for a target_role whose lower-cased form is not a key of the role
\* table, suggest_improvements returns exactly one element, the "looks
\* good" message naming target_role, whatever the resume text.
C7_UnknownRoleFallback ==
  (called = "suggest_improvements" /\ Lower(target_role) \notin RoleNames) =>
    ret = << <<"Your resume already looks good for a ">> \o target_role
               \o <<" role. (thumbs-up emoji)">> >>

\* C7 witness: "Unknown Role" with a resume text that names a skill.
C7_Witness ==
  /\ called = "suggest_improvements"
  /\ target_role = <<"U", "n", "k", "n", "o", "w", "n", " ", "R", "o", "l", "e">>
  /\ resume_text = <<"s", "q", "l">>
  /\ Len(ret) = 1

(***************************************************************************)
(* app.py: the ranking step.  A row is the upload's position (standing for *)
(* its filename) and its total_score in hundredths.                        *)
(***************************************************************************)
MaxRows == 3   \* resumes uploaded

Scores == {55, 82, 91}

RowsOf(scores) ==
  [i \in 1..Len(scores) |-> [filename |-> i, total_score |-> scores[i]]]

Orderings(n) ==
  {p \in [1..n -> 1..n] : \A i, j \in 1..n : i # j => p[i] # p[j]}

Descending(frame) ==
  \A i, j \in DOMAIN frame :
     i < j => frame[i].total_score >= frame[j].total_score

\* DataFrame(rows).sort_values("total_score", ascending=False)
\*   .reset_index(drop=True): the sort kind is pandas' default "quicksort",
\* which is not stable, so rows of equal score come out in any order
sort_values(rs) ==
  {frame \in {[i \in 1..Len(rs) |-> rs[p[i]]] : p \in Orderings(Len(rs))} :
     Descending(frame)}

InitRank ==
  /\ rows \in {RowsOf(sc) : sc \in SeqsUpTo(Scores, MaxRows)}
  /\ df = <<>>
  /\ NoKeywordArgs /\ NoScoreArgs /\ NoTipArgs /\ NoCall /\ NoThreads

\* if rows: df = pd.DataFrame(rows).sort_values(...)
Rank ==
  /\ rows # <<>>
  /\ called = "none"
  /\ df' \in sort_values(rows)
  /\ called' = "sort_values"
  /\ UNCHANGED <<argVars, ret, rows, embVars>>

NextRank == Rank

SpecRank == InitRank /\ [][NextRank]_vars

\* C8: the ranked rows are in descending order of total_score, and rows of
\* equal total_score keep their upload order.
C8_DescendingAndStable ==
  called = "sort_values" =>
    /\ Len(df) = Len(rows)
    /\ Descending(df)
    /\ \A i, j \in DOMAIN df :
         (i < j /\ df[i].total_score = df[j].total_score)
           => df[i].filename < df[j].filename

(***************************************************************************)
(* embeddings.py: get_model, called from several threads.  A thread may be *)
(* suspended between any two of its reads and writes of _model.            *)
(***************************************************************************)
NumThreads == 2   \* threads scoring resumes
MaxCalls == 2     \* get_model calls of one thread

Threads == 1..NumThreads

InitEmb ==
  /\ _model = NoModel
  /\ loads = 0
  /\ pc = [t \in Threads |-> "idle"]
  /\ got = [t \in Threads |-> NoModel]
  /\ calls = [t \in Threads |-> 0]
  /\ fresh = [t \in Threads |-> NoModel]
  /\ NoKeywordArgs /\ NoScoreArgs /\ NoTipArgs /\ NoCall /\ NoRanking

nonEmbVars == <<argVars, called, ret, rankVars>>

\* embed_texts: model = get_model()
Enter(t) ==
  /\ pc[t] = "idle"
  /\ calls[t] < MaxCalls
  /\ pc' = [pc EXCEPT ![t] = "check"]
  /\ UNCHANGED <<_model, loads, got, calls, fresh, nonEmbVars>>

\* variant: the test of _model left out, so every call loads
Check_always_load(t) ==
  /\ pc[t] = "check"
  /\ pc' = [pc EXCEPT ![t] = "construct"]
  /\ UNCHANGED <<_model, loads, got, calls, fresh, nonEmbVars>>

\* if _model is None:
Check(t) ==
  /\ pc[t] = "check"
  /\ pc' = [pc EXCEPT ![t] = IF _model = NoModel THEN "construct" ELSE "return"]
  /\ UNCHANGED <<_model, loads, got, calls, fresh, nonEmbVars>>

\* SentenceTransformer("sentence-transformers/all-MiniLM-L6-v2")
Construct(t) ==
  /\ pc[t] = "construct"
  /\ loads' = loads + 1
  /\ fresh' = [fresh EXCEPT ![t] = {loads + 1}]
  /\ pc' = [pc EXCEPT ![t] = "assign"]
  /\ UNCHANGED <<_model, got, calls, nonEmbVars>>

\* _model = <the new instance>
Assign(t) ==
  /\ pc[t] = "assign"
  /\ _model' = fresh[t]
  /\ fresh' = [fresh EXCEPT ![t] = NoModel]
  /\ pc' = [pc EXCEPT ![t] = "return"]
  /\ UNCHANGED <<loads, got, calls, nonEmbVars>>

\* return _model
Return(t) ==
  /\ pc[t] = "return"
  /\ got' = [got EXCEPT ![t] = _model]
  /\ calls' = [calls EXCEPT ![t] = calls[t] + 1]
  /\ pc' = [pc EXCEPT ![t] = "idle"]
  /\ UNCHANGED <<_model, loads, fresh, nonEmbVars>>

NextEmb ==
  \E t \in Threads :
     Enter(t) \/ Check(t) \/ Construct(t) \/ Assign(t) \/ Return(t)

SpecEmb == InitEmb /\ [][NextEmb]_vars

\* C10: with several threads calling get_model while _model is None, the
\* model is constructed exactly once, and every caller receives that same
\* instance.
C10_ConstructedOnce ==
  /\ loads <= 1
  /\ \A t, u \in Threads :
       (got[t] # NoModel /\ got[u] # NoModel) => got[t] = got[u]

(***************************************************************************)
(* SpecSeq: get_model called by one caller at a time (a sequential run of  *)
(* scoring calls).  The constructor may raise; the call then ends without  *)
(* a result and _model stays None.                                         *)
(***************************************************************************)
MaxSeqCalls == 4   \* get_model calls of one caller in a sequential run

\* a call starts only when no other call is under way
SeqEnter(t) ==
  /\ \A u \in Threads : pc[u] = "idle"
  /\ calls[t] < MaxSeqCalls
  /\ pc' = [pc EXCEPT ![t] = "check"]
  /\ UNCHANGED <<_model, loads, got, calls, fresh, nonEmbVars>>

\* SentenceTransformer(...) raises: the exception leaves get_model
LoadFails(t) ==
  /\ pc[t] = "construct"
  /\ pc' = [pc EXCEPT ![t] = "idle"]
  /\ UNCHANGED <<_model, loads, got, calls, fresh, nonEmbVars>>

NextSeq ==
  \E t \in Threads :
     SeqEnter(t) \/ Check(t) \/ Construct(t) \/ LoadFails(t) \/ Assign(t)
       \/ Return(t)

SpecSeq == InitEmb /\ [][NextSeq]_vars

\* C11: in a sequential run the model is not loaded before the first
\* get_model call, it is loaded by the first call that returns, and from
\* then on _model is never reassigned: every later call returns the same
\* instance and constructs nothing.
C11_LoadedOnceThenReused ==
  /\ []((\A t \in Threads : calls[t] = 0 /\ pc[t] \in {"idle", "check", "construct"})
          => (_model = NoModel /\ loads = 0))
  /\ [](\A t \in Threads : calls[t] > 0 => (got[t] = _model /\ _model # NoModel))
  /\ [](loads <= 1)
  /\ [][_model # NoModel => (_model' = _model /\ loads' = loads)]_vars

\* C11 witness: one caller has returned twice and another once, after a
\* single construction.
C11_Witness ==
  /\ calls[1] = 2 /\ calls[2] >= 1
  /\ got[1] = {1} /\ got[2] = {1}
  /\ loads = 1

(***************************************************************************)
(* Claims about suggest_improvements for a role of the table.              *)
(***************************************************************************)
RoleMatches == Lower(target_role) \in RoleNames

\* the expected keywords of the matched role, in table order
ExpectedKeywords ==
  (CHOOSE e \in Range(RoleEntries) : e[1] = Lower(target_role))[2]

\* the expected keywords that are not a case-insensitive substring of the
\* resume text, in table order
AbsentKeywords ==
  SelectSeq(ExpectedKeywords,
            LAMBDA kw : ~Contains(Lower(resume_text), Lower(kw)))

LooksGoodFor(role) ==
  <<"Your resume already looks good for a ">> \o role
    \o <<" role. (thumbs-up emoji)">>

\* C12 as claimed: for a role of the table, one line "Consider adding
\* experience with <keyword> to strengthen your <target_role> resume." per
\* absent expected keyword, in table order, and the single fallback message
\* only when no expected keyword is absent.
C12_PlainLines ==
  (called = "suggest_improvements" /\ RoleMatches) =>
    /\ AbsentKeywords # <<>> =>
         /\ Len(ret) = Len(AbsentKeywords)
         /\ \A i \in DOMAIN ret :
              ret[i] = <<"Consider adding experience with ">>
                         \o AbsentKeywords[i]
                         \o <<" to strengthen your ">> \o target_role
                         \o <<" resume.">>
    /\ (ret = <<LooksGoodFor(target_role)>>) <=> (AbsentKeywords = <<>>)

\* C12 amended: for a role of the table, one line "Consider adding
\* experience with **<keyword>** to strengthen your <target_role> resume."
\* (the keyword between markdown bold markers) per absent expected keyword,
\* in table order, and the single fallback message exactly when no expected
\* keyword is absent.
C12_BoldLines ==
  (called = "suggest_improvements" /\ RoleMatches) =>
    /\ AbsentKeywords # <<>> =>
         /\ Len(ret) = Len(AbsentKeywords)
         /\ \A i \in DOMAIN ret :
              ret[i] = <<"Consider adding experience with **">>
                         \o AbsentKeywords[i]
                         \o <<"** to strengthen your ">> \o target_role
                         \o <<" resume.">>
    /\ (ret = <<LooksGoodFor(target_role)>>) <=> (AbsentKeywords = <<>>)

\* C12 witness: "Data Analyst" with a resume text naming tableau in upper
\* case and sql: three of the five expected keywords are absent.
C12_Witness ==
  /\ called = "suggest_improvements"
  /\ target_role = <<"D", "a", "t", "a", " ", "A", "n", "a", "l", "y", "s", "t">>
  /\ resume_text = <<"T", "A", "B", "L", "E", "A", "U">> \o <<"s", "q", "l">>
  /\ Len(ret) = 3
  /\ AbsentKeywords = <<<<"e", "x", "c", "e", "l">>, <<"p", "o", "w", "e", "r", " ", "b", "i">>, <<"d", "a", "t", "a", " ", "v", "i", "s", "u", "a", "l", "i", "z", "a", "t", "i", "o", "n">>>>

\* "Data Analyst" with a resume text naming all five expected keywords:
\* the single fallback message
C12_FallbackReached ==
  /\ called = "suggest_improvements"
  /\ RoleMatches
  /\ AbsentKeywords = <<>>
  /\ ret = <<LooksGoodFor(target_role)>>

(***************************************************************************)
(* app.py, ranking tab: the row of a resume carries its missing keywords   *)
(* as two cells of text, and the details view reads the gap record back    *)
(* from the cells of the selected row.                                     *)
(***************************************************************************)
\* sep.join(list)
RECURSIVE join(_, _)
join(sep, list) ==
  IF list = <<>> THEN <<>>
  ELSE IF Len(list) = 1 THEN list[1]
  ELSE list[1] \o sep \o join(sep, Tail(list))

\* s.split(sep): the pieces of s between the occurrences of sep, found from
\* the left
RECURSIVE split(_, _)
split(s, sep) ==
  LET hits == {i \in 1..(Len(s) - Len(sep) + 1) :
                 SubSeq(s, i, i + Len(sep) - 1) = sep}
  IN IF hits = {} THEN <<s>>
     ELSE LET i == CHOOSE h \in hits : \A g \in hits : h <= g
          IN <<SubSeq(s, 1, i - 1)>>
               \o split(SubSeq(s, i + Len(sep), Len(s)), sep)

CommaSpace == <<",", " ">>

\* current["missing_must"].split(", ") if current["missing_must"] else []
CellToList(cell) == IF cell # <<>> THEN split(cell, CommaSpace) ELSE <<>>

\* gap_analysis(res_text, must, nice) if (must or nice) else {...}
RowGaps(text, must, nice) ==
  IF must # <<>> \/ nice # <<>>
  THEN gap_analysis(text, must, nice)
  ELSE [missing_must |-> <<>>, missing_nice |-> <<>>]

\* resume texts and role-profile keywords: plain terms, a term of two words,
\* terms with a comma
DetailTexts == {<<>>, <<"a">>, <<"b">>, <<"a", " ", "b">>}

DetailKeywords ==
  {<<"a">>, <<"b">>, <<"a", " ", "b">>, <<"a", ",">>, <<"a", ",", " ", "c">>}

InitDetail ==
  /\ resume_text \in DetailTexts
  /\ must_have \in SeqsUpTo(DetailKeywords, MaxKws)
  /\ nice_to_have \in SeqsUpTo(DetailKeywords, MaxKws - Len(must_have))
  /\ NoScoreArgs /\ NoTipArgs /\ NoCall /\ NoRanking /\ NoThreads

\* rows.append({"filename": ..., **sc, "missing_must": ", ".join(...), ...})
AppendRow ==
  /\ rows = <<>>
  /\ called = "none"
  /\ \E sc \in Scores :
        LET g == RowGaps(resume_text, must_have, nice_to_have)
        IN rows' = <<[filename |-> 1, total_score |-> sc,
                      missing_must |-> join(CommaSpace, g.missing_must),
                      missing_nice |-> join(CommaSpace, g.missing_nice)]>>
  /\ called' = "rows.append"
  /\ UNCHANGED <<argVars, ret, df, embVars>>

\* if rows: df = pd.DataFrame(rows).sort_values(...)
RankRows ==
  /\ rows # <<>>
  /\ called = "rows.append"
  /\ df' \in sort_values(rows)
  /\ called' = "sort_values"
  /\ UNCHANGED <<argVars, ret, rows, embVars>>

\* current = df[df["filename"] == pick].iloc[0]; if profile or demo_jd: the
\* gap record is read from the cells and handed to suggestions_from_gaps.
\* Keywords are there only with a profile; a profile may list none.
Details ==
  /\ called = "sort_values"
  /\ \E pick \in {r.filename : r \in Range(df)} :
     \E with_profile \in
          (IF must_have # <<>> \/ nice_to_have # <<>> THEN {TRUE} ELSE BOOLEAN) :
        LET current == df[CHOOSE i \in DOMAIN df : df[i].filename = pick]
            g == [missing_must |-> CellToList(current.missing_must),
                  missing_nice |-> CellToList(current.missing_nice)]
        IN IF with_profile
           THEN /\ gaps' = g
                /\ ret' = suggestions_from_gaps(g)
                /\ called' = "suggestions_from_gaps"
           ELSE /\ called' = "details"
                /\ UNCHANGED <<gaps, ret>>
  /\ UNCHANGED <<resume_text, job_text, must_have, nice_to_have, weights,
                 target_role, rankVars, embVars>>

NextDetail == AppendRow \/ RankRows \/ Details

SpecDetail == InitDetail /\ [][NextDetail]_vars

\* C13: the gap record handed to suggestions_from_gaps for the selected row
\* equals the gap record gap_analysis computed for that resume: joining
\* each missing-keyword list with ", " and splitting the cell on ", " gives
\* the list back.
C13_GapsRoundTrip ==
  called = "suggestions_from_gaps" =>
    gaps = gap_analysis(resume_text, must_have, nice_to_have)

\* the round trip does hold when no missing keyword contains ", "
C13_RoundTripWithoutCommaSpace ==
  (/\ called = "suggestions_from_gaps"
   /\ \A k \in Range(must_have) \cup Range(nice_to_have) :
         ~Contains(k, CommaSpace)) =>
    gaps = gap_analysis(resume_text, must_have, nice_to_have)

====
